---- MODULE Spec2Model ----
(***************************************************************************)
(* A model of run_task (src/agent.py): the Pattern Guard that may answer a *)
(* task before any reasoning, and the agent loop that asks the reasoning   *)
(* engine for one action per iteration, validates it, dispatches it to the *)
(* domain API and decides when to submit the task's outcome.               *)
(*                                                                         *)
(* Texts are sequences of words; a keyword test of the code ("kw in text") *)
(* is a test on the words of the text.  The reasoning engine and the       *)
(* domain API are the environment: each iteration draws what they return   *)
(* from small sets.                                                        *)
(***************************************************************************)
EXTENDS Integers, Sequences, FiniteSets, Bags, TLC

VARIABLES
    task_text,      \* task.task_text: the instruction, a sequence of words
    is_public,      \* about.is_public: the acting identity is a guest
    pc,             \* where run_task is: start, guard, loop, returned (and, for
                    \* compress_memory alone: raw, compressed, recompressed)
    step,           \* the loop variable of "for step in range(MAX_STEPS)"
    memory,         \* the memory string: a sequence of "|"-separated fragments
    scratch,        \* the scratch string: a sequence of characters (words, in a note)
    all_ids,        \* identifiers extracted so far (a list, with repeats)
    api_fails,      \* count of domain errors classified "system"
    llm_fails,      \* count of reasoning failures since the last parsed step
    system_broken,  \* flag set with api_fails
    call_history,   \* (action kind, key argument) of every successful dispatch;
                    \* the code reads the list through membership and counts
                    \* only, so it is kept as a bag
    block_count,    \* times a premature final response was blocked
    messages,       \* the conversation.  run_task only appends to it and never
                    \* reads it back, so the model keeps the entries appended by
                    \* the latest step (the sort of each, in order)
    submissions,    \* every call that submits an outcome, in order
    llm_calls,      \* reasoning-engine calls made
    dispatches,     \* api.dispatch calls made (final responses included)
    sent,           \* the latest api.dispatch call: the action as the reasoning
                    \* engine proposed it and as the dispatcher received it,
                    \* and the done flag of the step that proposed it
    trace,          \* the events trace.log appended during the latest step
    texts,          \* the words of every text read so far: memory and scratch
                    \* of the parsed steps, the API responses
    rps,            \* the rate RateLimiter was constructed with
    lock,           \* RateLimiter.lock: the set of workers holding it
    last_call,      \* RateLimiter.last_call
    clock,          \* time.time()
    worker,         \* per worker thread: where it is in execute_task, when its
                    \* sleep ends, the reasoning calls of its task so far
    pending,        \* tasks submitted to the executor and not yet started
    last_reasoning  \* when the latest reasoning call was made, by any worker

vars == <<task_text, is_public, pc, step, memory, scratch, all_ids, api_fails,
          llm_fails, system_broken, call_history, block_count, messages,
          submissions, llm_calls, dispatches, sent, trace, texts,
          rps, lock, last_call, clock, worker, pending, last_reasoning>>

\* the rate limiter, its clock and the threads of main
rate_limiter == <<rps, lock, last_call, clock, worker, pending, last_reasoning>>

loop_state == <<step, memory, scratch, all_ids, api_fails, llm_fails,
                system_broken, call_history, block_count, messages>>

-----------------------------------------------------------------------------
(* Bounds and program constants *)

\* cfg.MAX_STEPS, read from AGNO_MAX_STEPS (30 when unset)
MAX_STEPS == 6

\* "step < cfg.MAX_STEPS - 5": the block is waived in the last 5 iterations
WAIVE_LAST == 5

\* "llm_fails >= 3" and "api_fails >= 3"
LLM_FAIL_CAP == 3
API_FAIL_CAP == 3

\* "call_history.count(call_key) >= 3": the LOOP note and warning
LOOP_REPEATS == 3

\* "block_count >= 3": the CRITICAL note
BLOCK_ESCALATE == 3

\* "fn.limit > 5": the platform's page limit
LIMIT_MAX == 5

\* "scratch = ns.scratch[-500:]"
SCRATCH_KEEP == 500

\* how many dispatches of a final response the domain API may fail in one task
MaxFailedFinals == 2

None == "None"

-----------------------------------------------------------------------------
(* Texts *)

\* The keywords that occur inside a word as a substring ("date" in "update").
KeywordsIn(w) ==
    {w} \cup (CASE w = "update" -> {"date"}
                [] w = "hours" -> {"hour"}
                [] w = "today's" -> {"today"}
                [] w = "timeouts" -> {"timeout"}
                [] OTHER -> {})

\* "kw in text" for a one-word keyword
HasWord(text, kw) == \E i \in DOMAIN text : kw \in KeywordsIn(text[i])

\* "kw in text" for a keyword of several words separated by one space
HasPhrase(text, ws) ==
    \E i \in DOMAIN text :
        /\ i + Len(ws) - 1 <= Len(text)
        /\ \A j \in 1..Len(ws) : text[i + j - 1] = ws[j]

\* any(w in text for w in kws), kws a set of phrases
AnyOf(text, kws) == \E ws \in kws : IF Len(ws) = 1 THEN HasWord(text, ws[1])
                                                    ELSE HasPhrase(text, ws)

At(text, i) == IF i \in DOMAIN text THEN text[i] ELSE None

-----------------------------------------------------------------------------
(* Pattern Guard *)

\* is_date_query of the guest check
IsDateQuery(text) ==
    AnyOf(text, {<<"date">>, <<"today">>, <<"current", "date">>,
                 <<"what", "day">>, <<"what", "time">>})

\* the condition of the guest date shortcut
IsDateShortcut(text) ==
    AnyOf(text, {<<"date">>, <<"today">>, <<"current", "date">>, <<"what", "day">>})

\* wipe\s+(my|all)?\s*data
DenyWipe(text) ==
    \E i \in DOMAIN text :
        /\ text[i] = "wipe"
        /\ \/ At(text, i + 1) = "data"
           \/ At(text, i + 1) \in {"my", "all"} /\ At(text, i + 2) = "data"

\* context:\s*ceo.*respond\s*with
DenyImpersonate(text) ==
    \E i, j \in DOMAIN text :
        /\ text[i] = "context:" /\ At(text, i + 1) = "ceo"
        /\ j > i + 1 /\ text[j] = "respond" /\ At(text, j + 1) = "with"

\* (total\s+)?salary\s+of\s+(my\s+)?(team|teammate|colleague)
DenySalaryOf(text) ==
    \E i \in DOMAIN text :
        /\ text[i] = "salary" /\ At(text, i + 1) = "of"
        /\ \/ At(text, i + 2) \in {"team", "teammate", "colleague"}
           \/ At(text, i + 2) = "my"
              /\ At(text, i + 3) \in {"team", "teammate", "colleague"}

\* team.*(salary|salaries)
DenyTeamSalary(text) ==
    \E i, j \in DOMAIN text :
        /\ text[i] \in {"team", "teammate"}
        /\ j > i /\ text[j] \in {"salary", "salaries"}

\* _match_pattern(text, DENY_PATTERNS): the message of the first pattern found
DenyMsg(text) ==
    IF DenyWipe(text) THEN "Data wipe requires HR approval."
    ELSE IF DenyImpersonate(text) THEN "Cannot impersonate executives."
    ELSE IF DenySalaryOf(text) THEN "Salary info is confidential."
    ELSE IF DenyTeamSalary(text) THEN "Salary info is confidential."
    ELSE None

\* _match_pattern(text, UNSUPPORTED_PATTERNS): dependency\s*tracker
UnsupportedMsg(text) ==
    IF HasPhrase(text, <<"dependency", "tracker">>) \/ HasWord(text, "dependencytracker")
    THEN "Dependency tracking unavailable."
    ELSE None

\* any(re.search(p, text) for p in VAGUE_PATTERNS)
IsVague(text) ==
    \/ \E i \in DOMAIN text :
          /\ text[i] = "that"
          /\ At(text, i + 1) \in {"cool", "awesome", "great", "nice"}
          /\ At(text, i + 2) \in {"project", "thing"}
    \/ \E i \in DOMAIN text :
          /\ text[i] \in {"what", "what's", "whats"}
          /\ At(text, i + 1) = "the" /\ At(text, i + 2) = "name"
          /\ At(text, i + 3) = "of" /\ At(text, i + 4) = "that"
    \/ \E i \in DOMAIN text :
          /\ text[i] = "which"
          /\ At(text, i + 1) \in {"one?", "one ?"}

\* f"{about.today} -- AI Excellence Group INTERNATIONAL"
BrandedDate == "<today> - AI Excellence Group INTERNATIONAL"

Continue == [outcome |-> "continue", message |-> None]

\* the checks with the denylist ahead of the guest checks
DenylistFirst(text, guest) ==
    IF DenyMsg(text) # None
    THEN [outcome |-> "denied_security", message |-> DenyMsg(text)]
    ELSE IF guest /\ ~IsDateQuery(text)
    THEN [outcome |-> "denied_security", message |-> "Access denied."]
    ELSE IF guest /\ IsDateShortcut(text)
    THEN [outcome |-> "ok_answer", message |-> BrandedDate]
    ELSE IF UnsupportedMsg(text) # None
    THEN [outcome |-> "none_unsupported", message |-> UnsupportedMsg(text)]
    ELSE IF IsVague(text)
    THEN [outcome |-> "none_clarification_needed",
          message |-> "Could you clarify which project you're referring to?"]
    ELSE Continue

\* The checks of run_task before the agent loop, in the order of the code:
\* the outcome and message of the first one that returns, or Continue.
GuardResult(text, guest) ==
    IF guest /\ ~IsDateQuery(text)
    THEN [outcome |-> "denied_security", message |-> "Access denied."]
    ELSE IF guest /\ IsDateShortcut(text)
    THEN [outcome |-> "ok_answer", message |-> BrandedDate]
    ELSE IF DenyMsg(text) # None
    THEN [outcome |-> "denied_security", message |-> DenyMsg(text)]
    ELSE IF UnsupportedMsg(text) # None
    THEN [outcome |-> "none_unsupported", message |-> UnsupportedMsg(text)]
    ELSE IF IsVague(text)
    THEN [outcome |-> "none_clarification_needed",
          message |-> "Could you clarify which project you're referring to?"]
    ELSE Continue

-----------------------------------------------------------------------------
(* Identifiers and proposed actions *)

\* An identifier: its prefix, the class of the characters after "prefix_"
\* (digits, lower, mixed) and their number.
Id(prefix, chars, len) == [prefix |-> prefix, chars |-> chars, len |-> len]

\* an attribute that is absent or empty
NoId == Id("", "", 0)

\* _looks_hallucinated(id_str)
\*   ^(proj|emp|cust)_\d{1,5}$   or   ^emp_[a-z]+$
looks_hallucinated(id) ==
    IF id = NoId THEN FALSE
    ELSE \/ id.prefix \in {"proj", "emp", "cust"} /\ id.chars = "digits"
            /\ id.len >= 1 /\ id.len <= 5
         \/ id.prefix = "emp" /\ id.chars = "lower" /\ id.len >= 1

\* The outcome labels of Req_ProvideAgentResponse
OutcomeLabels == {"ok_answer", "ok_not_found", "denied_security",
                  "none_clarification_needed", "none_unsupported", "error_internal"}

\* The kinds whose successful dispatch is marked in memory
MutationKinds == {"Req_LogTimeEntry", "Req_UpdateEmployeeInfo", "Req_UpdateProjectStatus",
                  "Req_UpdateProjectTeam", "Req_UpdateWiki"}

\* ns.function: one proposed action.  id is its attribute among id, employee,
\* project, customer (the actions of the model set at most one of them); key
\* the attribute the call key is taken from; by its logged_by or changed_by;
\* limit the set holding the value of its limit parameter, empty without one;
\* fields its optional attributes that are not None, each with its value.
NoFields == [f \in {} |-> None]
Fn(kind, outcome, id, key, links) ==
    [kind |-> kind, outcome |-> outcome, id |-> id, key |-> key, links |-> links,
     message |-> "<llm message>", locations |-> <<>>, by |-> NoId, limit |-> {},
     fields |-> NoFields]

\* the action with logged_by / changed_by who, with limit n, with the
\* optional attributes fields
By(fn, who) == [fn EXCEPT !.by = who]
Limited(fn, n) == [fn EXCEPT !.limit = {n}]
With(fn, fields) == [fn EXCEPT !.fields = fields]

\* the identifiers an action carries
IdsIn(fn) == {fn.id, fn.by} \ {NoId}

\* no api.dispatch call yet
NoFn == Fn(None, None, NoId, None, {})
NoCall == [proposed |-> NoFn, fn |-> NoFn, done |-> FALSE]

\* the action left as the reasoning engine proposed it
Unclamped(fn) == fn

\* "if hasattr(fn, 'limit') and fn.limit and fn.limit > 5: fn.limit = 5"
Clamped(fn) ==
    [fn EXCEPT !.limit = {IF n > LIMIT_MAX THEN LIMIT_MAX ELSE n : n \in @}]

IsFinal(fn) == fn.kind = "Req_ProvideAgentResponse"

\* call_key = (fn.__class__.__name__, str(query / id / employee)[:40])
CallKey(fn) == <<fn.kind, fn.key>>

\* the warning held back until the pair is there a fourth time
LoopingLate(history, key) == CopiesIn(key, history) > LOOP_REPEATS

\* "if call_history.count(call_key) >= 3", call_key already appended
Looping(history, key) == CopiesIn(key, history) >= LOOP_REPEATS

\* a dispatch that raised issued a second time
RedispatchedOnFailure(n, r) == IF r.type = "ok" THEN n + 1 ELSE n + 2

\* "res = api.dispatch(fn)": one call, whatever comes back (r)
DispatchCount(n, r) == n + 1

\* any(c[0] == kind for c in call_history)
Called(history, kind) == \E k \in BagToSet(history) : k[1] = kind

-----------------------------------------------------------------------------
(* Error Classifier *)

LowerWord(w) ==
    CASE w = "Permission" -> "permission"
      [] w = "Timeout" -> "timeout"
      [] w = "Not" -> "not"
      [] w = "Unknown" -> "unknown"
      [] w = "Denmark" -> "denmark"
      [] w = "DK" -> "dk"
      [] OTHER -> w

\* text.lower()
Lower(text) == [i \in DOMAIN text |-> LowerWord(text[i])]

\* ERROR_CLASSES, in the order of the dictionary
PermissionIndicators ==
    {<<"permission">>, <<"denied">>, <<"unauthorized">>, <<"forbidden">>,
     <<"not", "allowed">>, <<"access", "denied">>, <<"not", "authorized">>,
     <<"cannot", "modify">>, <<"only", "lead">>, <<"not", "a", "member">>,
     <<"not", "lead">>, <<"no", "access">>, <<"restricted">>}
SystemIndicators ==
    {<<"internal", "server", "error">>, <<"system", "error">>,
     <<"service", "unavailable">>, <<"connection", "refused">>, <<"timeout">>,
     <<"500">>, <<"503">>, <<"502">>, <<"page", "limit", "exceeded">>}
NotFoundIndicators ==
    {<<"not", "found">>, <<"does", "not", "exist">>, <<"no", "such">>, <<"unknown">>}

\* the categories tried with not_found ahead of system
ClassifyNotFoundFirst(text) ==
    LET t == Lower(text) IN
    IF AnyOf(t, PermissionIndicators) THEN "permission"
    ELSE IF AnyOf(t, NotFoundIndicators) THEN "not_found"
    ELSE IF AnyOf(t, SystemIndicators) THEN "system"
    ELSE "other"

\* _classify_error(text)
classify_error(text) ==
    LET t == Lower(text) IN
    IF AnyOf(t, PermissionIndicators) THEN "permission"
    ELSE IF AnyOf(t, SystemIndicators) THEN "system"
    ELSE IF AnyOf(t, NotFoundIndicators) THEN "not_found"
    ELSE "other"

-----------------------------------------------------------------------------
(* Context Compressor *)

\* "ERR" in l
HasERR(l) == \E i \in DOMAIN l : l[i] \in {"ERR", "ERR:", "ERR[permission]:", "ERR[system]:",
                                             "ERR[not_found]:", "ERR[other]:", "ERROR"}

\* any(pref in l for pref in ["proj_", "emp_", "cust_", "->", "salary", "logged", "updated"])
HasSignal(l) == \E i \in DOMAIN l : l[i] \in {"proj_x", "emp_x", "cust_x", "->",
                                                "salary", "logged", "updated"}

\* s[-n:]
LastN(s, n) == IF Len(s) <= n THEN s ELSE SubSeq(s, Len(s) - n + 1, Len(s))

\* the error records kept
KeepNonEmpty(l) == l # <<>>

\* "if l.strip() and 'ERR' not in l"
KeepRaw(l) == l # <<>> /\ ~HasERR(l)

\* mem.split("|"): the fragments of a string in which "|" is a word
RECURSIVE Split(_)
Split(str) ==
    IF \E i \in DOMAIN str : str[i] = "|"
    THEN LET i == CHOOSE i \in DOMAIN str :
                    str[i] = "|" /\ \A j \in 1..(i - 1) : str[j] # "|"
         IN  <<SubSeq(str, 1, i - 1)>> \o Split(SubSeq(str, i + 1, Len(str)))
    ELSE <<str>>

\* " | ".join(memory_lines)
RECURSIVE Join(_)
Join(frags) ==
    IF frags = <<>> THEN <<>>
    ELSE IF Len(frags) = 1 THEN frags[1]
    ELSE frags[1] \o <<"|">> \o Join(Tail(frags))

\* the important fragments kept but for the newest
CompressDropsNewest(mem) ==
    LET lines == SelectSeq(mem, KeepRaw)
        important == SelectSeq(LastN(lines, 20), HasSignal)
        kept == LastN(important, 12)
    IN  IF kept = <<>> THEN kept ELSE SubSeq(kept, 1, Len(kept) - 1)

\* the fragments with a signal picked before the cut to the last 20
SignalsBeforeCut(mem) ==
    LastN(SelectSeq(LastN(SelectSeq(SelectSeq(mem, KeepRaw), HasSignal), 20), HasSignal), 12)

\* compress_memory(mem): mem is the sequence of the fragments between "|"
compress_memory(mem) ==
    LET lines == SelectSeq(mem, KeepRaw)
        important == SelectSeq(LastN(lines, 20), HasSignal)
    IN  LastN(important, 12)

\* _extract_ids(text): the identifier words of a text, as a set
IdWords == {"proj_x", "emp_x", "cust_x"}
extract_ids(text) == {text[i] : i \in DOMAIN text} \cap IdWords

\* list(set(...)): the members of a set in some order
Orderings(S) ==
    {o \in [1..Cardinality(S) -> S] : \A i, j \in DOMAIN o : i # j => o[i] # o[j]}

\* the words of a sequence of fragments
RECURSIVE Flatten(_)
Flatten(frags) == IF frags = <<>> THEN <<>> ELSE Head(frags) \o Flatten(Tail(frags))

\* _build_links(ids, exclude_on_error): one link per distinct identifier
build_links(ids, exclude_on_error) ==
    IF exclude_on_error THEN {} ELSE {ids[i] : i \in DOMAIN ids}

-----------------------------------------------------------------------------
(* Premature-completion guard *)

ImpliesTimeLog(t) == AnyOf(t, {<<"log">>, <<"record">>}) /\ HasWord(t, "hour")
ImpliesSalaryRaise(t) == AnyOf(t, {<<"raise">>, <<"increase">>}) /\ HasWord(t, "salary")
ImpliesStatusChange(t) ==
    HasWord(t, "status") /\ AnyOf(t, {<<"change">>, <<"archive">>, <<"pause">>, <<"resume">>})

\* "required": the three ifs of the code in their order, a later one
\* overwriting an earlier one
Required(t, history) ==
    LET r1 == IF ImpliesTimeLog(t) /\ ~Called(history, "Req_LogTimeEntry")
              THEN "Req_LogTimeEntry" ELSE None
        r2 == IF ImpliesSalaryRaise(t) /\ ~Called(history, "Req_UpdateEmployeeInfo")
              THEN "Req_UpdateEmployeeInfo" ELSE r1
    IN  IF ImpliesStatusChange(t) /\ ~Called(history, "Req_UpdateProjectStatus")
        THEN "Req_UpdateProjectStatus" ELSE r2

\* outcome = fn.outcome or "ok_answer"
OutcomeOr(fn) == IF fn.outcome = None THEN "ok_answer" ELSE fn.outcome

\* "if outcome == 'ok_answer' and not system_broken"
GuardApplies(fn, broken) == OutcomeOr(fn) = "ok_answer" /\ ~broken

\* the missing mutation of a final response the guard applies to, or None
Missing(fn, t, history, broken) ==
    IF GuardApplies(fn, broken) THEN Required(t, history) ELSE None

\* "if step < cfg.MAX_STEPS - 5: continue"
Blocks(s) == s < MAX_STEPS - WAIVE_LAST

\* a final response dispatched under the label the reasoning engine gave it
SentAsLabelled(fn, t, history, broken) == fn

\* the label left as it is
KeptLabel(label) == label

\* "if fn.outcome == 'ok_not_found': fn.outcome = 'ok_answer'"
Renamed(label) == IF label = "ok_not_found" THEN "ok_answer" ELSE label

\* The final response as dispatched: ok_not_found renamed, a status change
\* that never ran turned into a denial, the links of an error dropped.
Sanitized(fn, t, history, broken) ==
    LET renamed == Renamed(fn.outcome)
        deny == /\ GuardApplies(fn, broken)
                /\ ImpliesStatusChange(t)
                /\ ~Called(history, "Req_UpdateProjectStatus")
    IN  [fn EXCEPT
            !.outcome = IF deny THEN "denied_security" ELSE renamed,
            !.message = IF deny THEN "Project not found or you are not authorized to modify it."
                        ELSE fn.message,
            !.links = IF OutcomeOr(fn) = "error_internal" \/ broken THEN {} ELSE fn.links]

-----------------------------------------------------------------------------
(* The environment: tasks, reasoning results, API results *)

RealEmp == Id("emp", "mixed", 9)
FakeEmp == Id("emp", "digits", 1)
RealProj == Id("proj", "mixed", 12)

\* proposed actions
Final(label) == Fn("Req_ProvideAgentResponse", label, NoId, None, {"proj_x"})
SearchProjects == Fn("Req_SearchProjects", None, NoId, "query", {})
GetFakeEmployee == Fn("Req_GetEmployee", None, FakeEmp, "emp_1", {})
LogTimeEntry == Fn("Req_LogTimeEntry", None, RealEmp, "emp", {})
UpdateEmployeeInfo == Fn("Req_UpdateEmployeeInfo", None, RealEmp, "emp", {})
UpdateProjectStatus == Fn("Req_UpdateProjectStatus", None, RealProj, "proj", {})
SearchCustomers == Fn("Req_SearchCustomers", None, NoId, "query", {})

\* a parsed NextStep that proposes f
StepOf(f, done) == [memory |-> <<>>, scratch |-> <<>>, done |-> done, function |-> f]

\* what api.dispatch does: return a response, raise ApiException (err is
\* str(exc)), raise another exception
Returns == [type |-> "ok", out |-> <<<<"{}">>>>, projects |-> 0, companies |-> None]
Raises(err) == [type |-> "ApiException", err |-> err]
Faults == [type |-> "Exception", err |-> <<"connection", "reset">>]

-----------------------------------------------------------------------------
(* run_task *)

\* messages.append(...) for each entry of sorts, msgs being the entries the
\* step has appended before
Appended(msgs, sorts) == msgs \o sorts

\* \b([A-Z]{2,4}-[A-Z0-9]+-[A-Z0-9]+)\b
HasCustomerCode(text) == \E i \in DOMAIN text : text[i] \in {"CC-NORD-AI-12O"}

\* run_task on its own: no rate limiter, no other thread
NoLimiter ==
    /\ rps = 0
    /\ lock = {}
    /\ last_call = 0
    /\ clock = 0
    /\ worker = <<>>
    /\ pending = 0
    /\ last_reasoning = 0

\* the words of a text, of the memory and scratch of a parsed step
WordsOf(text) == {text[i] : i \in DOMAIN text}
WordsOfStep(ns) == WordsOf(Flatten(ns.memory)) \cup WordsOf(ns.scratch)

\* the trace event of each return of the Pattern Guard
GuardEvent(g) ==
    CASE g.message = "Access denied." -> "guest_denied"
      [] g.outcome = "ok_answer" -> "guest_date"
      [] g.outcome = "denied_security" -> "deny"
      [] g.outcome = "none_unsupported" -> "unsupported"
      [] OTHER -> "clarification"

\* trace.log("limit_override", ...) when the limit is clamped
LimitEvents(fn) == IF \E n \in fn.limit : n > LIMIT_MAX THEN <<"limit_override">> ELSE <<>>

\* run_task is called with one of Tasks
InitWith(Tasks) ==
    /\ task_text \in Tasks
    /\ is_public = FALSE
    /\ pc = "start"
    /\ step = 0
    /\ memory = <<>>
    /\ scratch = <<>>
    /\ all_ids = <<>>
    /\ api_fails = 0
    /\ llm_fails = 0
    /\ system_broken = FALSE
    /\ call_history = EmptyBag
    /\ block_count = 0
    /\ messages = <<>>
    /\ submissions = <<>>
    /\ llm_calls = 0
    /\ dispatches = 0
    /\ sent = NoCall
    /\ trace = <<>>
    /\ texts = {}
    /\ NoLimiter

\* api.provide_agent_response(message, outcome, links) followed by return,
\* subs being the submissions made so far
RespondAfter(subs, message, outcome, links) ==
    /\ submissions' = Append(subs,
            [outcome |-> outcome, message |-> message, links |-> links,
             via |-> "provide_agent_response"])
    /\ pc' = "returned"

Respond(message, outcome, links) == RespondAfter(submissions, message, outcome, links)

\* api = core.get_erc_client(task); about = api.who_am_i()
Start ==
    /\ pc = "start"
    /\ is_public' \in BOOLEAN
    /\ pc' = "guard"
    /\ trace' = <<"start">>
    /\ UNCHANGED <<task_text, loop_state, submissions, llm_calls, dispatches, sent,
                   texts, rate_limiter>>

\* the checks before the loop; when none returns, the loop's conversation
\* is set up
PatternGuard ==
    /\ pc = "guard"
    /\ LET g == GuardResult(Lower(task_text), is_public) IN
       IF g # Continue
       THEN /\ Respond(g.message, g.outcome, {})
            /\ trace' = <<GuardEvent(g)>>
            /\ UNCHANGED messages
       ELSE /\ pc' = "loop"
            /\ trace' = <<>>
            /\ messages' = <<"system_prompt", "user">> \o
                    (IF HasCustomerCode(task_text) THEN <<"customer_code_hint">> ELSE <<>>)
            /\ UNCHANGED submissions
    /\ UNCHANGED <<task_text, is_public, step, memory, scratch, all_ids, api_fails,
                   llm_fails, system_broken, call_history, block_count,
                   llm_calls, dispatches, sent, texts, rate_limiter>>

\* One iteration of the loop: the guard at its head, then the body.
Iterate(body) ==
    /\ pc = "loop"
    /\ step < MAX_STEPS
    /\ IF api_fails >= API_FAIL_CAP
       THEN /\ system_broken' = TRUE
            /\ Respond("System unavailable.", "error_internal", {})
            /\ messages' = <<>>
            /\ trace' = <<"step">>
            /\ UNCHANGED <<task_text, is_public, step, memory, scratch, all_ids,
                           api_fails, llm_fails, call_history, block_count,
                           llm_calls, dispatches, sent, texts, rate_limiter>>
       ELSE body

\* memory = compress_memory(memory) at the head of the iteration
MemAtHead == compress_memory(memory)

\* memory, scratch after a parsed step ns
MemAfterParse(ns) ==
    IF ns.memory # <<>> THEN compress_memory(MemAtHead \o ns.memory) ELSE MemAtHead
ScratchAfterParse(ns) ==
    IF ns.scratch # <<>> THEN LastN(ns.scratch, SCRATCH_KEEP) ELSE scratch

\* giving up one failure later
GivesUpLate(fails) == fails > LLM_FAIL_CAP

\* "if llm_fails >= 3"
GivesUp(fails) == fails >= LLM_FAIL_CAP

\* the reasoning call raised, or its output did not parse; below the cap the
\* loop goes on at iteration next
FailedReasoning(next) ==
    Iterate(
        /\ memory' = MemAtHead
        /\ llm_calls' = llm_calls + 1
        /\ llm_fails' = llm_fails + 1
        /\ trace' \in {<<"step", "llm_error">>, <<"step", "llm", "llm_error">>}
        /\ IF GivesUp(llm_fails + 1)
           THEN /\ Respond("System error.", "error_internal", {})
                /\ messages' = <<>>
                /\ UNCHANGED step
           ELSE /\ messages' = Appended(<<>>, <<"valid_json">>)
                /\ step' = next
                /\ pc' = "loop"
                /\ UNCHANGED submissions
        /\ UNCHANGED <<task_text, is_public, scratch, all_ids, api_fails,
                       system_broken, call_history, block_count, dispatches, sent,
                       texts, rate_limiter>>)

RetrySameIteration == FailedReasoning(step)

\* "continue" in the except branch of the reasoning call: the for loop moves
\* to the next step
ReasoningFailure == FailedReasoning(step + 1)

\* the counter left alone by a parsed step
FailsKept(fails) == fails

\* "llm_fails = 0" once the step is parsed
FailsAfterParse(fails) == 0

\* what every parsed step does before the action is looked at
\* and, with note, what a successful search adds to scratch afterwards
Parsed(ns, note) ==
    /\ llm_calls' = llm_calls + 1
    /\ llm_fails' = FailsAfterParse(llm_fails)
    /\ scratch' = ScratchAfterParse(ns) \o note
    /\ UNCHANGED <<task_text, is_public, rate_limiter>>

\* a + b on strings: nothing stands between the last word of a and the first
\* word of b, so they are one word of the result
Concat(a, b) ==
    IF a = <<>> \/ b = <<>> THEN a \o b
    ELSE SubSeq(a, 1, Len(a) - 1) \o <<a[Len(a)] \o b[1]>> \o Tail(b)

\* all_ids.extend(_extract_ids(ns.memory + ns.scratch)): the orders in which
\* the identifiers of the step may be appended
IdsOfStep(ns) == Orderings(extract_ids(Concat(Flatten(ns.memory), ns.scratch)))

\* an identifier of the action looks hallucinated: a note, no dispatch
HallucinatedRejected(Steps) ==
    Iterate(\E ns \in Steps : \E ord \in IdsOfStep(ns) :
        /\ Parsed(ns, <<>>)
        /\ looks_hallucinated(ns.function.id)
        /\ all_ids' = all_ids \o ord
        /\ memory' = MemAfterParse(ns)
        /\ messages' = Appended(<<>>, <<"hallucinated">>)
        /\ trace' = <<"step", "llm">> \o LimitEvents(ns.function)
        /\ texts' = texts \cup WordsOfStep(ns)
        /\ step' = step + 1
        /\ pc' = "loop"
        /\ UNCHANGED <<api_fails, system_broken, call_history, block_count,
                       submissions, dispatches, sent>>)

\* the notes of the premature-completion guard
BlockNotes(count) ==
    IF count >= BLOCK_ESCALATE THEN <<"blocked", "critical">> ELSE <<"blocked">>

\* a final response that claims success before the required mutation ran,
\* outside the last iterations: notes, no dispatch
FinalBlocked(Steps) ==
    Iterate(\E ns \in Steps : \E ord \in IdsOfStep(ns) :
        /\ Parsed(ns, <<>>)
        /\ ~looks_hallucinated(ns.function.id)
        /\ IsFinal(ns.function)
        /\ Missing(ns.function, Lower(task_text), call_history, system_broken) # None
        /\ Blocks(step)
        /\ all_ids' = all_ids \o ord
        /\ memory' = MemAfterParse(ns)
        /\ block_count' = block_count + 1
        /\ messages' = Appended(<<>>, BlockNotes(block_count + 1))
        /\ trace' = <<"step", "llm", "tool_call">>
        /\ texts' = texts \cup WordsOfStep(ns)
        /\ step' = step + 1
        /\ pc' = "loop"
        /\ UNCHANGED <<api_fails, system_broken, call_history, submissions, dispatches, sent>>)

ErrTag(etype) ==
    CASE etype = "permission" -> "ERR[permission]:"
      [] etype = "system" -> "ERR[system]:"
      [] etype = "not_found" -> "ERR[not_found]:"
      [] OTHER -> "ERR[other]:"

\* an API error that never ends the task with a denial
NeverDenies(fn, etype) == FALSE

\* "if etype == 'permission'" and "if etype == 'not_found' and isinstance(fn,
\* (Req_UpdateProjectStatus, Req_UpdateProjectTeam))"
EndsWithDenial(fn, etype) ==
    \/ etype = "permission"
    \/ etype = "not_found" /\ fn.kind \in {"Req_UpdateProjectStatus", "Req_UpdateProjectTeam"}

DenialMessage(etype) ==
    IF etype = "permission" THEN "Permission denied."
    ELSE "You are not authorized to modify this project."

\* a system error after which the loop goes on
SystemErrorRetried(etype) == FALSE

\* "if etype == 'system'"
EndsWithSystemError(etype) == etype = "system"

\* a system error counted and the loop left to go on
SystemErrorCounted(fn, err, mem, subs, msgs) ==
    LET etype == classify_error(err) IN
    /\ memory' = mem \o Split(<<ErrTag(etype)>> \o err)
    /\ IF EndsWithDenial(fn, etype)
       THEN /\ RespondAfter(subs, DenialMessage(etype), "denied_security", {})
            /\ messages' = msgs
            /\ UNCHANGED <<step, api_fails, system_broken>>
       ELSE /\ api_fails' = IF EndsWithSystemError(etype) THEN api_fails + 1 ELSE api_fails
            /\ system_broken' = (system_broken \/ EndsWithSystemError(etype))
            /\ messages' = Appended(msgs, <<"tool_error">>)
            /\ step' = step + 1
            /\ pc' = "loop"
            /\ submissions' = subs

\* "except ApiException": fn is the action whose dispatch raised, mem the
\* memory, subs the submissions and msgs the conversation at that point
OnApiException(fn, err, mem, subs, msgs) ==
    LET etype == classify_error(err) IN
    /\ memory' = mem \o Split(<<ErrTag(etype)>> \o err)
    /\ IF EndsWithDenial(fn, etype)
       THEN /\ RespondAfter(subs, DenialMessage(etype), "denied_security", {})
            /\ messages' = msgs
            /\ UNCHANGED <<step, api_fails, system_broken>>
       ELSE IF EndsWithSystemError(etype)
       THEN /\ api_fails' = api_fails + 1
            /\ system_broken' = TRUE
            /\ RespondAfter(subs, "System error.", "error_internal", {})
            /\ messages' = msgs
            /\ UNCHANGED step
       ELSE /\ messages' = Appended(msgs, <<"tool_error">>)
            /\ step' = step + 1
            /\ pc' = "loop"
            /\ submissions' = subs
            /\ UNCHANGED <<api_fails, system_broken>>

\* a fault that ends the task
FaultEndsTask(err, mem, subs, msgs) ==
    /\ memory' = mem \o Split(<<"ERR:">> \o err)
    /\ RespondAfter(subs, "System error.", "error_internal", {})
    /\ messages' = msgs
    /\ UNCHANGED <<step, api_fails, system_broken>>

\* "except Exception"
OnException(err, mem, subs, msgs) ==
    /\ memory' = mem \o Split(<<"ERR:">> \o err)
    /\ messages' = Appended(msgs, <<"tool_error">>)
    /\ step' = step + 1
    /\ pc' = "loop"
    /\ submissions' = subs
    /\ UNCHANGED <<api_fails, system_broken>>

\* a dispatch that logs its result only when it returned
SilentOnFailure(r) == IF r.type = "ok" THEN <<"tool_result">> ELSE <<>>

\* the trace events after api.dispatch: tool_result on return and in both
\* except branches, system_error_stop after the submission of a system error
ResultEvents(r) ==
    <<"tool_result">> \o
    (IF r.type = "ApiException" /\ EndsWithSystemError(classify_error(r.err))
     THEN <<"system_error_stop">> ELSE <<>>)

\* a final response that passes the guard (or whose block is waived) is
\* dispatched; only a dispatch that returns ends the task here
FinalDispatched(Steps, Results) ==
    Iterate(\E ns \in Steps, r \in Results : \E ord \in IdsOfStep(ns) :
        LET fn == ns.function
            missing == Missing(fn, Lower(task_text), call_history, system_broken)
            final == Sanitized(fn, Lower(task_text), call_history, system_broken)
            msgs == IF missing # None
                    THEN Appended(<<>>, BlockNotes(block_count + 1))
                    ELSE <<>>
            subs == Append(submissions,
                        [outcome |-> final.outcome, message |-> final.message,
                         links |-> final.links, via |-> "dispatch"])
        IN  /\ Parsed(ns, <<>>)
            /\ ~looks_hallucinated(fn.id)
            /\ IsFinal(fn)
            /\ ~(missing # None /\ Blocks(step))
            /\ r.type # "ok" => Len(submissions) < MaxFailedFinals
            /\ all_ids' = all_ids \o ord
            /\ block_count' = IF missing # None THEN block_count + 1 ELSE block_count
            /\ dispatches' = DispatchCount(dispatches, r)
            /\ sent' = [proposed |-> fn, fn |-> final, done |-> ns.done]
            /\ trace' = <<"step", "llm", "tool_call">> \o
                    (IF missing # None THEN <<"force_allow">> ELSE <<>>) \o ResultEvents(r)
            /\ texts' = texts \cup WordsOfStep(ns)
            /\ UNCHANGED call_history
            /\ CASE r.type = "ok" ->
                      /\ pc' = "returned"
                      /\ submissions' = subs
                      /\ messages' = msgs
                      /\ memory' = MemAfterParse(ns)
                      /\ UNCHANGED <<step, api_fails, system_broken>>
                 [] r.type = "ApiException" ->
                      OnApiException(fn, r.err, MemAfterParse(ns), subs, msgs)
                 [] OTHER ->
                      OnException(r.err, MemAfterParse(ns), subs, msgs))

\* re.search(r"\bfor\s+(\w+)\b", task_lower): the word after the first "for"
ForSomeone(t) ==
    IF \E i \in DOMAIN t : t[i] = "for" /\ i < Len(t)
    THEN LET i == CHOOSE i \in DOMAIN t :
                    /\ t[i] = "for" /\ i < Len(t)
                    /\ \A j \in 1..(i - 1) : t[j] # "for"
         IN  t[i + 1]
    ELSE None

\* scratch += f" | DISAMBIGUATE: check team for '{name}'": written here one
\* element per word, so the note is no longer than in the code
ScratchNote(fn, r, t) ==
    IF fn.kind = "Req_SearchProjects" /\ r.projects > 1 /\ ForSomeone(t) # None
    THEN <<"|", "DISAMBIGUATE:", "check", "team", "for", ForSomeone(t)>>
    ELSE <<>>

\* about.current_user
current_user == Id("emp", "mixed", 8)

\* the function fields without the attributes outside keep
Only(fields, keep) == [f \in DOMAIN fields \cap keep |-> fields[f]]

\* a time entry whose billable flag is filled in the way its other
\* attributes are: "fn.billable or True"
BillableOrTrue(fields) ==
    [f \in DOMAIN fields \cup {"work_category", "status", "billable"} |->
        CASE f = "work_category" ->
                IF f \in DOMAIN fields /\ fields[f] # "" THEN fields[f] ELSE "development"
          [] f = "status" ->
                IF f \in DOMAIN fields /\ fields[f] # "" THEN fields[f] ELSE "draft"
          [] f = "billable" -> TRUE
          [] OTHER -> fields[f]]

\* fn.work_category = fn.work_category or "development"; fn.status =
\* fn.status or "draft"; fn.billable = fn.billable if fn.billable is not None
\* else True.  Nothing else of the time entry is assigned.
TimeEntryFields(fields) ==
    [f \in DOMAIN fields \cup {"work_category", "status", "billable"} |->
        CASE f = "work_category" ->
                IF f \in DOMAIN fields /\ fields[f] # "" THEN fields[f] ELSE "development"
          [] f = "status" ->
                IF f \in DOMAIN fields /\ fields[f] # "" THEN fields[f] ELSE "draft"
          [] f = "billable" ->
                IF f \in DOMAIN fields THEN fields[f] ELSE TRUE
          [] OTHER -> fields[f]]

\* an update that passes on every attribute it was given
PayloadAsGiven(fields) == fields

\* "v and str(v).strip()" for department, location, notes; "v and len(v) > 0"
\* for skills, wills; "fn.salary is not None"
InPayload(fields, f) ==
    /\ f \in DOMAIN fields
    /\ CASE f = "salary" -> TRUE
         [] f \in {"department", "location", "notes"} -> fields[f] \notin {"", " "}
         [] f \in {"skills", "wills"} -> fields[f] # <<>>
         [] OTHER -> FALSE

\* payload of Req_UpdateEmployeeInfo.model_construct(**payload), without
\* employee and changed_by
Payload(fields) ==
    Only(fields, {f \in {"salary", "department", "location", "notes", "skills", "wills"} :
                    InPayload(fields, f)})

\* logged_by / changed_by default to the acting user; the time entry gets
\* its defaults, the update of an employee is rebuilt from its payload
Enriched(fn) ==
    LET who == IF fn.by = NoId THEN current_user ELSE fn.by IN
    CASE fn.kind = "Req_LogTimeEntry" ->
            [fn EXCEPT !.by = who, !.fields = TimeEntryFields(@)]
      [] fn.kind = "Req_UpdateEmployeeInfo" ->
            [fn EXCEPT !.by = who, !.fields = Payload(@)]
      [] OTHER -> fn

\* any(l.lower() in ("danmark", "denmark", "dk") for l in locs)
NamesDenmark(locs) ==
    \E i \in DOMAIN locs : LowerWord(locs[i]) \in {"danmark", "denmark", "dk"}

\* the hints appended after a successful search
SearchHints(fn, r, t) ==
    (IF fn.kind = "Req_SearchProjects" /\ r.projects > 1 /\ ForSomeone(t) # None
     THEN <<"multiple_projects">> ELSE <<>>) \o
    (IF fn.kind = "Req_SearchProjects" /\ r.projects > 1 /\ ImpliesTimeLog(t)
     THEN <<"time_logging_projects">> ELSE <<>>) \o
    (IF fn.kind = "Req_SearchCustomers" /\ r.companies = None /\ NamesDenmark(fn.locations)
     THEN <<"nordic_retry">> ELSE <<>>)

\* any other action is dispatched; a dispatch that returns is recorded
Dispatched(Steps, Results) ==
    Iterate(\E ns \in Steps, r \in Results : \E ord \in IdsOfStep(ns) :
        LET fn == ns.function
            t == Lower(task_text)
            mem == MemAfterParse(ns)
        IN  /\ Parsed(ns, IF r.type = "ok" THEN ScratchNote(fn, r, t) ELSE <<>>)
            /\ ~looks_hallucinated(fn.id)
            /\ ~IsFinal(fn)
            /\ dispatches' = DispatchCount(dispatches, r)
            /\ sent' = [proposed |-> fn, fn |-> Enriched(Clamped(fn)), done |-> ns.done]
            /\ trace' = <<"step", "llm">> \o LimitEvents(fn) \o <<"tool_call">> \o
                    ResultEvents(r)
            /\ texts' = texts \cup WordsOfStep(ns) \cup
                    (IF r.type = "ok" THEN WordsOf(Flatten(r.out)) ELSE {})
            /\ UNCHANGED block_count
            /\ CASE r.type = "ok" ->
                      LET hints == SearchHints(fn, r, t)
                          marked == IF fn.kind \in MutationKinds
                                    THEN compress_memory(Append(mem, <<"CHECK", fn.kind>>))
                                    ELSE mem
                          history == call_history (+) SetToBag({CallKey(fn)})
                          looping == Looping(history, CallKey(fn))
                          noted == IF looping THEN Append(marked, <<"LOOP:", fn.kind>>)
                                   ELSE marked
                      IN  /\ call_history' = history
                          /\ messages' = Appended(<<>>,
                                hints \o (IF looping THEN <<"loop_warning">> ELSE <<>>)
                                      \o <<"assistant", "tool">>)
                          /\ \E ord2 \in Orderings(extract_ids(Flatten(r.out))) :
                                all_ids' = all_ids \o ord \o ord2
                          /\ memory' = compress_memory(noted \o r.out)
                          /\ UNCHANGED <<api_fails, system_broken>>
                          /\ IF ns.done
                             THEN /\ Respond("Done.", "ok_answer",
                                             build_links(LastN(all_ids', 5), FALSE))
                                  /\ UNCHANGED step
                             ELSE /\ step' = step + 1
                                  /\ pc' = "loop"
                                  /\ UNCHANGED submissions
                 [] r.type = "ApiException" ->
                      /\ all_ids' = all_ids \o ord
                      /\ UNCHANGED call_history
                      /\ OnApiException(fn, r.err, mem, submissions, <<>>)
                 [] OTHER ->
                      /\ all_ids' = all_ids \o ord
                      /\ UNCHANGED call_history
                      /\ OnException(r.err, mem, submissions, <<>>))

\* any(w in task_lower for w in ["status", "pause", "archive", "resume",
\* "switch"])
NamesStatusChange(t) ==
    AnyOf(t, {<<"status">>, <<"pause">>, <<"archive">>, <<"resume">>, <<"switch">>})

\* every identifier seen so far
AllSeen(ids) == ids

\* all_ids[-3:]
RecentIds(ids) == LastN(ids, 3)

\* "Loop exhausted": the for loop ran MAX_STEPS iterations
LoopExhausted ==
    /\ pc = "loop"
    /\ step = MAX_STEPS
    /\ IF system_broken
       THEN Respond("System error.", "error_internal", {})
       ELSE IF NamesStatusChange(Lower(task_text))
       THEN Respond("Project not found or not authorized.", "denied_security", {})
       ELSE Respond("Could not complete.", "error_internal",
                    build_links(RecentIds(all_ids), FALSE))
    /\ messages' = <<>>
    /\ trace' = <<>>
    /\ UNCHANGED <<task_text, is_public, step, memory, scratch, all_ids, api_fails,
                   llm_fails, system_broken, call_history, block_count,
                   llm_calls, dispatches, sent, texts, rate_limiter>>

\* The steps of run_task, the reasoning engine answering from Steps and the
\* domain API from Results.
NextOf(Steps, Results) ==
    \/ Start
    \/ PatternGuard
    \/ ReasoningFailure
    \/ HallucinatedRejected(Steps)
    \/ FinalBlocked(Steps)
    \/ FinalDispatched(Steps, Results)
    \/ Dispatched(Steps, Results)
    \/ LoopExhausted

-----------------------------------------------------------------------------
(* The loop on a time-logging task *)

CoreSteps ==
    { StepOf(Final("ok_answer"), FALSE), StepOf(Final("ok_not_found"), FALSE),
      StepOf(GetFakeEmployee, FALSE) } \cup
    { StepOf(f, d) : f \in {SearchProjects, LogTimeEntry}, d \in BOOLEAN }

\* the instruction of the task
Init == InitWith({ <<"log", "3", "hours">> })

\* each dispatch returns, raises an ApiException or raises another exception
Next ==
    NextOf(CoreSteps,
           { Returns, Raises(<<"Permission", "denied">>), Raises(<<"bad", "request">>),
             Faults })

Spec == Init /\ [][Next]_vars

\* The same task with fewer proposals and results, for what a run does in
\* the end: each way an iteration can go on or stop is among them
RunSteps ==
    { StepOf(Final("ok_answer"), FALSE), StepOf(GetFakeEmployee, FALSE),
      StepOf(SearchProjects, FALSE), StepOf(SearchProjects, TRUE) }

RunResults == { Returns, Raises(<<"bad", "request">>), Raises(<<"Timeout">>) }

\* run_task runs on a thread of its own and every call it makes returns or
\* raises, so a step that is possible is eventually taken
FairSpec == Init /\ [][NextOf(RunSteps, RunResults)]_vars /\ WF_vars(NextOf(RunSteps, RunResults))

-----------------------------------------------------------------------------
(* The Pattern Guard on every kind of instruction, for guests and others *)

Instructions ==
    { <<"wipe", "my", "data">>, <<"wipe", "all", "data", "today">>,
      <<"update", "team", "salaries">>, <<"what's", "the", "date", "today">>,
      <<"what", "time", "is", "it">>, <<"dependency", "tracker">>,
      <<"which", "one?">>, <<"log", "3", "hours">>, <<"raise", "salary">>,
      <<"change", "status">>, <<"pause", "project">> }

SpecGuard ==
    /\ InitWith(Instructions)
    /\ [][NextOf({ StepOf(Final("ok_answer"), FALSE), StepOf(SearchProjects, FALSE),
                   StepOf(GetFakeEmployee, FALSE) },
                 { Returns })]_vars

-----------------------------------------------------------------------------
(* Every outcome label the reasoning engine can put on a final response *)

LabelSteps ==
    { StepOf(Final(l), FALSE) : l \in OutcomeLabels } \cup
    { StepOf(SearchProjects, TRUE), StepOf(UpdateProjectStatus, FALSE),
      StepOf(GetFakeEmployee, FALSE) }

SpecLabels ==
    /\ InitWith({ <<"change", "status">> })
    /\ [][NextOf(LabelSteps,
                 { Returns, Raises(<<"Permission", "denied">>), Raises(<<"Timeout">>),
                   Faults })]_vars

-----------------------------------------------------------------------------
(* What reaches the dispatcher: limits, identifiers, and the notes a search *)
(* leaves in scratch                                                        *)

\* a parsed NextStep that proposes f, with memory mem and scratch text
Noting(f, mem, text) == [StepOf(f, FALSE) EXCEPT !.memory = mem, !.scratch = text]

\* a scratch of exactly the length the truncation keeps
FullScratch == [i \in 1..SCRATCH_KEEP |-> "x"]

ActionSteps ==
    { StepOf(SearchProjects, FALSE), Noting(SearchProjects, <<>>, FullScratch),
      StepOf(Limited(SearchProjects, 3), FALSE), StepOf(Limited(SearchProjects, 5), FALSE),
      StepOf(Limited(SearchProjects, 6), FALSE), StepOf(Limited(SearchProjects, 50), FALSE),
      StepOf(LogTimeEntry, FALSE), StepOf(By(LogTimeEntry, FakeEmp), FALSE),
      StepOf(GetFakeEmployee, FALSE), StepOf(Final("ok_answer"), FALSE) }

\* a search that finds n projects
ReturnsProjects(n) == [Returns EXCEPT !.projects = n]

SpecActions ==
    /\ InitWith({ <<"log", "3", "hours", "for", "felix">> })
    /\ [][NextOf(ActionSteps, { Returns, ReturnsProjects(2) })]_vars

-----------------------------------------------------------------------------
(* The errors of the domain API, on a task that changes a project's status *)

\* str(exc) of the ApiExceptions raised
ErrorTexts ==
    { <<"Permission", "denied">>,
      <<"project", "not", "found", "or", "forbidden">>,
      <<"Timeout", "while", "checking", "permission">>,
      <<"not", "found", "after", "two", "timeouts">>,
      <<"Unknown", "project">>,
      <<"internal", "server", "error">>,
      <<"bad", "request">>,
      <<"not", "a", "number">> }

SpecErrors ==
    /\ InitWith({ <<"change", "status">> })
    /\ [][NextOf({ StepOf(UpdateProjectStatus, FALSE), StepOf(SearchProjects, FALSE),
                   StepOf(GetFakeEmployee, FALSE), StepOf(Final("ok_answer"), FALSE) },
                 { Returns } \cup { Raises(e) : e \in ErrorTexts })]_vars

-----------------------------------------------------------------------------
(* Identifiers in the texts the loop reads, on a task that names no change, *)
(* on one that pauses a project and on one that changes a status            *)

\* a memory that ends in "cust_" before a scratch that starts with "x" is
\* among the steps
IdSteps ==
    { StepOf(SearchProjects, FALSE),
      Noting(SearchProjects, << <<"team", "emp_x">> >>, <<>>),
      Noting(SearchProjects, << <<"see", "cust_">> >>, <<"x", "later">>),
      StepOf(GetFakeEmployee, FALSE),
      StepOf(Final("error_internal"), FALSE), StepOf(Final("ok_answer"), FALSE) }

\* a response that names a project
Found == [Returns EXCEPT !.out = << <<"proj_x">> >>]

SpecIds ==
    /\ InitWith({ <<"find", "project">>, <<"pause", "project">>, <<"change", "status">> })
    /\ [][NextOf(IdSteps, { Found, Raises(<<"Timeout">>) })]_vars

-----------------------------------------------------------------------------
(* The optional attributes of a time entry and of an employee update, on a *)
(* task that raises a salary                                               *)

\* the optional attributes of the proposed employee updates: none, a zero
\* salary, empty and blank texts, empty lists, all six set
UpdateInputs ==
    { NoFields,
      [salary |-> 0],
      [salary |-> 100, department |-> "", notes |-> " "],
      [department |-> "R&D", location |-> "", skills |-> <<>>],
      [notes |-> "promoted", skills |-> <<"python">>, wills |-> <<>>],
      [salary |-> 100, department |-> "R&D", location |-> "Oslo", notes |-> "promoted",
       skills |-> <<"python">>, wills |-> <<"lead">>] }

\* those of the proposed time entries: none, billable false, all set, empty
\* texts, a customer alone
TimeEntryInputs ==
    { NoFields,
      [billable |-> FALSE],
      [billable |-> TRUE, work_category |-> "design", status |-> "submitted",
       customer |-> "cust_x"],
      [work_category |-> "", status |-> ""],
      [customer |-> "cust_x"] }

\* each without changed_by / logged_by, and one of each kind with it
FieldSteps ==
    { StepOf(With(UpdateEmployeeInfo, fields), FALSE) : fields \in UpdateInputs } \cup
    { StepOf(With(LogTimeEntry, fields), FALSE) : fields \in TimeEntryInputs } \cup
    { StepOf(With(By(UpdateEmployeeInfo, RealEmp), [salary |-> 0]), FALSE),
      StepOf(With(By(LogTimeEntry, RealEmp), [billable |-> FALSE]), FALSE),
      StepOf(GetFakeEmployee, FALSE), StepOf(Final("ok_answer"), FALSE) }

SpecFields ==
    /\ InitWith({ <<"raise", "salary">> })
    /\ [][NextOf(FieldSteps, { Returns })]_vars

-----------------------------------------------------------------------------
(* The trace log: one instruction for each return of the Pattern Guard and *)
(* one that enters the loop, dispatches that return, raise and fault       *)

SpecTrace ==
    /\ InitWith({ <<"wipe", "my", "data">>, <<"what's", "the", "date", "today">>,
                  <<"dependency", "tracker">>, <<"which", "one?">>,
                  <<"log", "3", "hours">> })
    /\ [][NextOf({ StepOf(SearchProjects, FALSE), StepOf(Limited(SearchProjects, 50), FALSE),
                   StepOf(LogTimeEntry, FALSE), StepOf(GetFakeEmployee, FALSE),
                   StepOf(Final("ok_answer"), FALSE) },
                 { Returns, Raises(<<"bad", "request">>), Raises(<<"Timeout">>),
                   Faults })]_vars

-----------------------------------------------------------------------------
(* Customer searches with and without a location filter, on a task that *)
(* logs hours for a customer                                            *)

\* the search with the location filter locs
Located(f, locs) == [f EXCEPT !.locations = locs]

\* a response that lists one customer
FoundCustomer == [Returns EXCEPT !.out = << <<"cust_x">> >>, !.companies = "[cust_x]"]

SpecNordic ==
    /\ InitWith({ <<"log", "3", "hours", "for", "nordic", "customer">> })
    /\ [][NextOf({ StepOf(SearchCustomers, FALSE),
                   StepOf(Located(SearchCustomers, <<"Denmark">>), FALSE),
                   StepOf(Located(SearchCustomers, <<"Sweden">>), FALSE),
                   StepOf(GetFakeEmployee, FALSE),
                   StepOf(Final("ok_not_found"), FALSE), StepOf(Final("ok_answer"), FALSE) },
                 { Returns, FoundCustomer })]_vars

-----------------------------------------------------------------------------
(* The notes a failed dispatch leaves in memory, on a task that raises a *)
(* salary: error texts with and without a signal word, one with a "|",   *)
(* and a fault                                                           *)

SpecNotes ==
    /\ InitWith({ <<"raise", "salary">> })
    /\ [][NextOf({ StepOf(UpdateEmployeeInfo, FALSE), StepOf(GetFakeEmployee, FALSE),
                   StepOf(Final("ok_answer"), FALSE) },
                 { Returns, Faults, Raises(<<"salary", "rejected">>),
                   Raises(<<"rejected", "|", "salary", "too", "high">>) })]_vars

-----------------------------------------------------------------------------
(* compress_memory on its own: a memory string is compressed, and what comes *)
(* back is compressed again, the way the head of every iteration does        *)

\* the longest memory tried, in fragments
MaxFragments == 26

\* what a fragment can be: with an identifier, with an arrow, plain, an error
\* note, an error note with an identifier, empty
FragmentKinds ==
    { <<"emp_x", "found">>, <<"salary", "->", "5">>, <<"note">>,
      <<"ERR:", "timeout">>, <<"ERR[other]:", "proj_x">>, <<>> }

\* fragment number i of a kind: the number is its length
Numbered(kind, i) == kind \o [k \in 1..i |-> "x"]

\* memories of n fragments, alternately of two kinds
MemoryInputs ==
    { [i \in 1..n |-> IF i % 2 = 0 THEN Numbered(a, i) ELSE Numbered(b, i)] :
        n \in 0..MaxFragments, a \in FragmentKinds, b \in FragmentKinds }

InitCompress ==
    /\ memory \in MemoryInputs
    /\ pc = "raw"
    /\ task_text = <<>>
    /\ is_public = FALSE
    /\ step = 0
    /\ scratch = <<>>
    /\ all_ids = <<>>
    /\ api_fails = 0
    /\ llm_fails = 0
    /\ system_broken = FALSE
    /\ call_history = EmptyBag
    /\ block_count = 0
    /\ messages = <<>>
    /\ submissions = <<>>
    /\ llm_calls = 0
    /\ dispatches = 0
    /\ sent = NoCall
    /\ trace = <<>>
    /\ texts = {}
    /\ NoLimiter

\* memory = compress_memory(memory): the string the last call returned is
\* split again
CompressMemory ==
    /\ pc \in {"raw", "compressed"}
    /\ memory' = compress_memory(Split(Join(memory)))
    /\ pc' = IF pc = "raw" THEN "compressed" ELSE "recompressed"
    /\ UNCHANGED <<task_text, is_public, step, scratch, all_ids, api_fails, llm_fails,
                   system_broken, call_history, block_count, messages, submissions,
                   llm_calls, dispatches, sent, trace, texts, rate_limiter>>

SpecCompress == InitCompress /\ [][CompressMemory]_vars

-----------------------------------------------------------------------------
(* The rate limiter of main and the worker threads that share it.  Time is  *)
(* counted in ticks; a worker runs execute_task for one task after another: *)
(* acquire, then run_task with its reasoning calls.                         *)

\* ticks in a second
Second == 4

\* tasks of the session, reasoning calls one task makes at most, and the
\* time up to which the clock runs when nobody sleeps
MaxTasks == 3
MaxReasoning == 2
MaxTime == 8

\* the threads of the pool
Workers == {"w1", "w2"}

\* cfg.RATE_LIMIT_RPS * max_workers, as set from the environment
Rates == {-1, 0, 2}

\* self.min_interval = 1.0 / rps if rps > 0 else 0
min_interval == IF rps > 0 THEN Second \div rps ELSE 0

\* a limiter that never waits
NoWait(last, interval, t) == 0

\* wait = self.last_call + self.min_interval - now
Wait(last, interval, t) == last + interval - t

\* main: the limiter is constructed, the tasks are submitted; run_task itself
\* is not followed here
InitLimiter ==
    /\ rps \in Rates
    /\ lock = {}
    /\ last_call = 0
    /\ clock = Second
    /\ worker = [w \in Workers |-> [pc |-> "idle", wake |-> 0, calls |-> 0]]
    /\ pending = MaxTasks
    /\ last_reasoning = 0
    /\ task_text = <<>>
    /\ is_public = FALSE
    /\ pc = "main"
    /\ step = 0
    /\ memory = <<>>
    /\ scratch = <<>>
    /\ all_ids = <<>>
    /\ api_fails = 0
    /\ llm_fails = 0
    /\ system_broken = FALSE
    /\ call_history = EmptyBag
    /\ block_count = 0
    /\ messages = <<>>
    /\ submissions = <<>>
    /\ llm_calls = 0
    /\ dispatches = 0
    /\ sent = NoCall
    /\ trace = <<>>
    /\ texts = {}

\* what no step of the limiter or of a worker touches
run_state == <<task_text, is_public, pc, step, memory, scratch, all_ids, api_fails,
               llm_fails, system_broken, call_history, block_count, messages,
               submissions, llm_calls, dispatches, sent, trace, texts, rps>>

\* the worker w moves to place p
Moved(w, p) == [worker EXCEPT ![w].pc = p]

\* a thread of the pool starts execute_task on the next task and calls
\* rate_limiter.acquire()
TakeTask(w) ==
    /\ worker[w].pc = "idle"
    /\ pending > 0
    /\ pending' = pending - 1
    /\ worker' = [worker EXCEPT ![w].pc = "acquire", ![w].calls = 0]
    /\ UNCHANGED <<run_state, lock, last_call, clock, last_reasoning>>

\* "with self.lock:" entered
Lock(w) ==
    /\ worker[w].pc = "acquire"
    /\ lock = {}
    /\ lock' = {w}
    /\ worker' = Moved(w, "locked")
    /\ UNCHANGED <<run_state, last_call, clock, pending, last_reasoning>>

\* now = time.time(); wait = ...; "if wait > 0: time.sleep(wait)" begins
ReadClock(w) ==
    /\ worker[w].pc = "locked"
    /\ LET wait == Wait(last_call, min_interval, clock) IN
       worker' = IF wait > 0
                 THEN [worker EXCEPT ![w].pc = "sleeping", ![w].wake = clock + wait]
                 ELSE Moved(w, "stamp")
    /\ UNCHANGED <<run_state, lock, last_call, clock, pending, last_reasoning>>

\* time.sleep(wait) returns, not before wait has passed
Wake(w) ==
    /\ worker[w].pc = "sleeping"
    /\ clock >= worker[w].wake
    /\ worker' = Moved(w, "stamp")
    /\ UNCHANGED <<run_state, lock, last_call, clock, pending, last_reasoning>>

\* self.last_call = time.time(), and the lock is released: acquire returns
Stamp(w) ==
    /\ worker[w].pc = "stamp"
    /\ last_call' = clock
    /\ lock' = {}
    /\ worker' = Moved(w, "admitted")
    /\ UNCHANGED <<run_state, clock, pending, last_reasoning>>

\* run_task calls the reasoning engine: client.beta.chat.completions.parse
Reason(w) ==
    /\ worker[w].pc = "admitted"
    /\ worker[w].calls < MaxReasoning
    /\ worker' = [worker EXCEPT ![w].calls = @ + 1]
    /\ last_reasoning' = clock
    /\ UNCHANGED <<run_state, lock, last_call, clock, pending>>

\* run_task returns and execute_task completes the task
Finish(w) ==
    /\ worker[w].pc = "admitted"
    /\ worker' = Moved(w, "idle")
    /\ UNCHANGED <<run_state, lock, last_call, clock, pending, last_reasoning>>

\* time passes; past MaxTime only as far as a sleeper needs
Tick ==
    /\ \/ clock < MaxTime
       \/ \E w \in Workers : worker[w].pc = "sleeping" /\ worker[w].wake > clock
    /\ clock' = clock + 1
    /\ UNCHANGED <<run_state, lock, last_call, worker, pending, last_reasoning>>

\* what a thread does
Thread(w) ==
    \/ TakeTask(w)
    \/ Lock(w)
    \/ ReadClock(w)
    \/ Wake(w)
    \/ Stamp(w)
    \/ Reason(w)
    \/ Finish(w)

\* every thread keeps running and time keeps passing
SpecLimiter ==
    /\ InitLimiter
    /\ [][(Tick \/ \E w \in Workers : Thread(w))]_vars
    /\ WF_vars(Tick)
    /\ \A w \in Workers : WF_vars(Thread(w))

-----------------------------------------------------------------------------
(* execute_task: what a worker calls for one task, each call returning or *)
(* raising. error is task_error, with str(exc) written as the name of the *)
(* call that raised; log lists the calls made and raised the calls that   *)
(* raised, in order                                                       *)

InitExecute ==
    /\ worker = [w \in Workers |->
                    [pc |-> "acquire", error |-> None, result |-> None,
                     admitted |-> FALSE, log |-> <<>>, raised |-> <<>>]]
    /\ rps = 0
    /\ lock = {}
    /\ last_call = 0
    /\ clock = 0
    /\ pending = 0
    /\ last_reasoning = 0
    /\ pc = "main"
    /\ task_text = <<>>
    /\ is_public = FALSE
    /\ step = 0
    /\ memory = <<>>
    /\ scratch = <<>>
    /\ all_ids = <<>>
    /\ api_fails = 0
    /\ llm_fails = 0
    /\ system_broken = FALSE
    /\ call_history = EmptyBag
    /\ block_count = 0
    /\ messages = <<>>
    /\ submissions = <<>>
    /\ llm_calls = 0
    /\ dispatches = 0
    /\ sent = NoCall
    /\ trace = <<>>
    /\ texts = {}

\* the exception of call leaving execute_task
Escaped(at, call) ==
    [at EXCEPT !.pc = "escaped", !.log = Append(@, call), !.raised = Append(@, call)]

\* "except Exception as exc: task_error = str(exc)", and on to complete_task
Captured(at, call) ==
    [at EXCEPT !.pc = "complete", !.error = call, !.log = Append(@, call),
               !.raised = Append(@, call)]

\* rate_limiter.acquire()
AcquireLimiter(w) ==
    /\ worker[w].pc = "acquire"
    /\ \/ worker' = [worker EXCEPT ![w].pc = "start", ![w].admitted = TRUE,
                                   ![w].log = Append(@, "acquire")]
       \/ worker' = [worker EXCEPT ![w] = Captured(@, "acquire")]
    /\ UNCHANGED <<run_state, lock, last_call, clock, pending, last_reasoning>>

\* core.start_task(task)
StartTask(w) ==
    /\ worker[w].pc = "start"
    /\ \/ worker' = [worker EXCEPT ![w].pc = "run", ![w].log = Append(@, "start_task")]
       \/ worker' = [worker EXCEPT ![w] = Captured(@, "start_task")]
    /\ UNCHANGED <<run_state, lock, last_call, clock, pending, last_reasoning>>

\* run_task(client, core, task, trace)
RunTask(w) ==
    /\ worker[w].pc = "run"
    /\ \/ worker' = [worker EXCEPT ![w].pc = "complete", ![w].log = Append(@, "run_task")]
       \/ worker' = [worker EXCEPT ![w] = Captured(@, "run_task")]
    /\ UNCHANGED <<run_state, lock, last_call, clock, pending, last_reasoning>>

\* result = core.complete_task(task), or "result = None; task_error =
\* task_error or str(exc)"
CompleteTask(w) ==
    /\ worker[w].pc = "complete"
    /\ \/ worker' = [worker EXCEPT ![w].pc = "report", ![w].result = "result",
                                   ![w].log = Append(@, "complete_task")]
       \/ worker' = [worker EXCEPT ![w].pc = "report",
                                   ![w].error = IF @ # None THEN @ ELSE "complete_task",
                                   ![w].log = Append(@, "complete_task"),
                                   ![w].raised = Append(@, "complete_task")]
    /\ UNCHANGED <<run_state, lock, last_call, clock, pending, last_reasoning>>

\* the score is printed and the dict returned
ReturnResult(w) ==
    /\ worker[w].pc = "report"
    /\ worker' = Moved(w, "returned")
    /\ UNCHANGED <<run_state, lock, last_call, clock, pending, last_reasoning>>

SpecExecute ==
    /\ InitExecute
    /\ [][\E w \in Workers :
              \/ AcquireLimiter(w)
              \/ StartTask(w)
              \/ RunTask(w)
              \/ CompleteTask(w)
              \/ ReturnResult(w)]_vars

-----------------------------------------------------------------------------
(* Properties *)

LastSubmission == submissions[Len(submissions)]

\* the run came back from the Pattern Guard, before any iteration
GuardAnswered == pc = "returned" /\ llm_calls = 0 /\ dispatches = 0

\* the run went past the Pattern Guard into the loop
LoopEntered == pc = "loop" \/ llm_calls > 0

FixedOutcomes ==
    { "ok_answer", "denied_security", "none_unsupported",
      "none_clarification_needed", "error_internal" }

\* C1: when run_task has returned it has made exactly one final-outcome
\* submission (a provide_agent_response call or a dispatched final response),
\* also when the dispatch of a final response failed.
C1_ExactlyOneSubmission == pc = "returned" => Len(submissions) = 1

\* C2: once an outcome has been submitted, nothing of the loop happens any
\* more: no reasoning call, no dispatch, no change of memory, scratchpad,
\* conversation, counters or call history.
C2_SubmissionEndsLoop ==
    [][Len(submissions) > 0 => UNCHANGED <<loop_state, llm_calls, dispatches, sent>>]_vars

\* C3: a run makes at most MAX_STEPS reasoning calls and at most MAX_STEPS
\* dispatches, every iteration that goes on moves the step index forward by
\* one, and the run eventually returns with an outcome submitted.
C3_BoundedAndTerminates ==
    /\ [](llm_calls <= MAX_STEPS /\ dispatches <= MAX_STEPS /\ step <= MAX_STEPS)
    /\ [][pc = "loop" /\ pc' = "loop" => step' = step + 1]_vars
    /\ <>(pc = "returned" /\ Len(submissions) >= 1)

\* C3 (case): the loop ran through all MAX_STEPS iterations, each with a
\* reasoning call and a dispatch, and returned by exhaustion.
C3_RanToExhaustion ==
    /\ pc = "returned"
    /\ step = MAX_STEPS
    /\ llm_calls = MAX_STEPS
    /\ dispatches = MAX_STEPS
    /\ Len(submissions) = 1

\* C4: every outcome submitted, by a canned response or by a dispatched final
\* response, is one of the five fixed values.
C4_OutcomeInFixedSet ==
    \A i \in DOMAIN submissions : submissions[i].outcome \in FixedOutcomes

\* C4 (case): the run ended with a dispatched final response.
C4_FinalResponseDispatched ==
    /\ pc = "returned"
    /\ LastSubmission.via = "dispatch"
    /\ LastSubmission.outcome \in FixedOutcomes

\* C5: an instruction matching a denylist pattern is answered with
\* denied_security and the pattern's message, whoever asks, without any
\* reasoning call or dispatch.
C5_DenylistAlwaysDenied ==
    (pc \notin {"start", "guard"} /\ DenyMsg(Lower(task_text)) # None) =>
        /\ GuardAnswered
        /\ Len(submissions) = 1
        /\ submissions[1].outcome = "denied_security"
        /\ submissions[1].message = DenyMsg(Lower(task_text))

C7_GuestNeverInLoop ==
    is_public =>
        /\ ~LoopEntered
        /\ (pc = "returned" /\ IsDateQuery(Lower(task_text))) =>
               /\ Len(submissions) = 1
               /\ submissions[1].outcome = "ok_answer"
               /\ submissions[1].message = BrandedDate

\* the outcome of the first check that matches, the checks taken in the order
\* guest non-date, guest date, denylist, unsupported, vague
FirstMatch(text, guest) ==
    IF guest /\ ~IsDateQuery(text) THEN "denied_security"
    ELSE IF guest /\ IsDateQuery(text) THEN "ok_answer"
    ELSE IF DenyMsg(text) # None THEN "denied_security"
    ELSE IF UnsupportedMsg(text) # None THEN "none_unsupported"
    ELSE IF IsVague(text) THEN "none_clarification_needed"
    ELSE "continue"

\* C8: the Pattern Guard answers with the result of the first check that
\* matches, and the agent loop is entered exactly when none matches.
C8_FirstMatchWins ==
    pc \notin {"start", "guard"} =>
        LET first == FirstMatch(Lower(task_text), is_public)
        IN  IF first = "continue"
            THEN LoopEntered
            ELSE GuardAnswered /\ submissions[1].outcome = first

\* C9: on a time-logging task a run that ends with ok_answer has a successful
\* log-time-entry dispatch in call_history, and every other run ends with
\* denied_security or error_internal.
C9_TimeLogNeedsEntry ==
    (pc = "returned" /\ ImpliesTimeLog(Lower(task_text))) =>
        IF LastSubmission.outcome = "ok_answer"
        THEN Called(call_history, "Req_LogTimeEntry")
        ELSE LastSubmission.outcome \in {"denied_security", "error_internal"}

\* C10: a final response with a success outcome whose required mutation is
\* missing from call_history is dispatched only in the last five iterations.
C10_PrematureFinalWaivedOnlyAtEnd ==
    (/\ pc = "returned"
     /\ LastSubmission.via = "dispatch"
     /\ LastSubmission.outcome = "ok_answer"
     /\ Required(Lower(task_text), call_history) # None)
        => step >= MAX_STEPS - WAIVE_LAST

\* C11: on a task that implies a status change no ok_answer is submitted
\* unless a successful Req_UpdateProjectStatus is in call_history.
C11_StatusChangeNeedsUpdate ==
    ImpliesStatusChange(Lower(task_text)) =>
        \A i \in DOMAIN submissions :
            submissions[i].outcome = "ok_answer"
                => Called(call_history, "Req_UpdateProjectStatus")

\* C12: no action handed to the dispatcher carries an identifier that looks
\* hallucinated, in any of its identifier-bearing parameters.
C12_NoHallucinatedIdDispatched ==
    \A id \in IdsIn(sent.fn) : ~looks_hallucinated(id)

\* C13: the limit of a dispatched action is at most 5, and a proposed limit of
\* 5 or less is dispatched unchanged.
C13_LimitAtMostFive ==
    /\ \A n \in sent.fn.limit : n <= LIMIT_MAX
    /\ \A n \in sent.proposed.limit : n <= LIMIT_MAX => sent.fn.limit = {n}
    /\ sent.proposed.limit # {} => sent.fn.limit # {}

\* C13 (case): a search proposed with limit 50 was dispatched with limit 5.
C13_LargeLimitClamped ==
    /\ sent.proposed.limit = {50}
    /\ sent.fn.limit = {5}
    /\ dispatches > 0

\* C20: the memory shown to a reasoning call has at most 12 fragments and
\* scratch never holds more than the 500 characters its truncation keeps.
C20_MemoryAndScratchBounded ==
    /\ pc = "loop" => Len(MemAtHead) <= 12
    /\ Len(scratch) <= SCRATCH_KEEP

\* C14: the third consecutive reasoning failure ends the task with
\* error_internal; there is never a fourth consecutive failing call.
C14_ThreeFailuresEndTask ==
    /\ llm_fails <= LLM_FAIL_CAP
    /\ llm_fails <= llm_calls
    /\ llm_fails = LLM_FAIL_CAP =>
          /\ pc = "returned"
          /\ LastSubmission.outcome = "error_internal"
          /\ LastSubmission.message = "System error."
          /\ LastSubmission.links = {}
          /\ LastSubmission.via = "provide_agent_response"

\* C14 (case): after some iterations that parsed, three reasoning calls in a
\* row failed and the task ended.
C14_ThirdFailureInARow ==
    /\ llm_fails = LLM_FAIL_CAP
    /\ llm_calls > LLM_FAIL_CAP
    /\ pc = "returned"

\* this step made a dispatch that raised, and the handler noted it in memory
\* under tag
DispatchRaised(tag) ==
    /\ dispatches' = dispatches + 1
    /\ Len(memory') > 0
    /\ Len(memory'[Len(memory')]) > 0
    /\ Head(memory'[Len(memory')]) = tag

\* the run is over after this step, its last submission a canned one
EndsWith(outcome, message) ==
    /\ pc' = "returned"
    /\ llm_calls' = llm_calls + 1
    /\ submissions'[Len(submissions')] =
           [outcome |-> outcome, message |-> message, links |-> {},
            via |-> "provide_agent_response"]

\* C15: a permission error, and a not_found error of an update of a project's
\* status or team, ends the task at once with denied_security and no links;
\* a not_found error of any other action does not end it.
C15_DenialAtFirstOccurrence ==
    [][/\ DispatchRaised("ERR[permission]:")
            => EndsWith("denied_security", "Permission denied.")
       /\ (/\ DispatchRaised("ERR[not_found]:")
           /\ sent'.fn.kind \in {"Req_UpdateProjectStatus", "Req_UpdateProjectTeam"})
            => EndsWith("denied_security", "You are not authorized to modify this project.")
       /\ (/\ DispatchRaised("ERR[not_found]:")
           /\ sent'.fn.kind \notin {"Req_UpdateProjectStatus", "Req_UpdateProjectTeam"})
            => pc' = "loop" /\ step' = step + 1]_vars

\* C15 (case): an update of a project's status raised not_found and the task
\* ended with the denial.
C15_NotFoundOnStatusUpdate ==
    /\ pc = "returned"
    /\ sent.fn.kind = "Req_UpdateProjectStatus"
    /\ LastSubmission.message = "You are not authorized to modify this project."
    /\ LastSubmission.outcome = "denied_security"

\* C16: a system error ends the task at once with error_internal and no
\* links, and the system-failure counter goes up by one.
C16_SystemErrorOneStrike ==
    [][DispatchRaised("ERR[system]:") =>
          /\ EndsWith("error_internal", "System error.")
          /\ api_fails' = api_fails + 1
          /\ system_broken']_vars

\* C16 (case): a dispatch raised a system error and the task ended.
C16_SystemErrorEnded ==
    /\ pc = "returned"
    /\ api_fails = 1
    /\ system_broken
    /\ LastSubmission.outcome = "error_internal"

\* C17: an error classified other, and a generic fault of a dispatch, submits
\* nothing by itself: the error goes to the conversation, call_history and
\* the failure counter stay, and the loop goes to the next iteration.
C17_OtherErrorsContinue ==
    [][(DispatchRaised("ERR[other]:") \/ DispatchRaised("ERR:")) =>
          /\ pc' = "loop"
          /\ step' = step + 1
          /\ Len(messages') > 0 /\ messages'[Len(messages')] = "tool_error"
          /\ call_history' = call_history
          /\ api_fails' = api_fails
          /\ system_broken' = system_broken
          /\ \/ submissions' = submissions
             \/ /\ IsFinal(sent'.fn)
                /\ Len(submissions') = Len(submissions) + 1
                /\ submissions'[Len(submissions')].via = "dispatch"]_vars

\* C17 (case): a dispatch failed with such an error and the loop went on.
C17_LoopWentOn ==
    /\ pc = "loop"
    /\ step > 0
    /\ Len(memory) > 0
    /\ Len(memory[Len(memory)]) > 0
    /\ Head(memory[Len(memory)]) \in {"ERR[other]:", "ERR:"}

\* the categories in the order the claim gives them, and what makes a message
\* belong to one: an indicator of it occurs in the lowered message
CategoryOrder == <<"permission", "system", "not_found">>

IndicatorsOf(c) ==
    CASE c = "permission" -> PermissionIndicators
      [] c = "system" -> SystemIndicators
      [] c = "not_found" -> NotFoundIndicators

Occurs(c, text) == AnyOf(Lower(text), IndicatorsOf(c))

FirstCategory(text) ==
    LET hits == {i \in DOMAIN CategoryOrder : Occurs(CategoryOrder[i], text)}
    IN  IF hits = {} THEN "other"
        ELSE CategoryOrder[CHOOSE i \in hits : \A j \in hits : i <= j]

ErrTags == {"ERR[permission]:", "ERR[system]:", "ERR[not_found]:", "ERR[other]:"}

\* C18: _classify_error gives every message the first category, in the order
\* permission, system, not_found, one of whose indicators occurs in it, case
\* ignored, and other when none does.
C18_FirstCategoryWins ==
    \A k \in DOMAIN memory :
        (Len(memory[k]) > 0 /\ Head(memory[k]) \in ErrTags) =>
            Head(memory[k]) = ErrTag(FirstCategory(Tail(memory[k])))

\* C18 (case): a message with indicators of system and of not_found was
\* classified system.
C18_SeveralCategories ==
    /\ Len(memory) > 0
    /\ memory[Len(memory)] =
           <<"ERR[system]:", "not", "found", "after", "two", "timeouts">>

\* C19: compress_memory is idempotent: compressing what compress_memory
\* returned gives it back unchanged.
C19_CompressIdempotent ==
    [][pc = "compressed" => memory' = memory]_vars

\* C19 (case): a memory of more than 20 fragments was cut to 12 and then
\* compressed a second time.
C19_CutToTwelveTwice ==
    /\ pc = "recompressed"
    /\ Len(memory) = 12
    /\ Len(memory[1]) > 14

\* C21: every submission with outcome error_internal carries no entity link,
\* whichever path made it: a final response, the cap on reasoning failures, a
\* system error, the exhaustion of the iteration budget.
C21_InternalErrorHasNoLinks ==
    \A i \in DOMAIN submissions :
        submissions[i].outcome = "error_internal" => submissions[i].links = {}

\* C22: no submission carries the outcome ok_not_found; a final response
\* proposed with ok_not_found is dispatched with ok_answer.
C22_NeverOkNotFound ==
    /\ \A i \in DOMAIN submissions : submissions[i].outcome # "ok_not_found"
    /\ sent.proposed.outcome = "ok_not_found" => sent.fn.outcome = "ok_answer"

\* C22 (case): a final response proposed with ok_not_found was dispatched and
\* ended the task.
C22_NotFoundDispatched ==
    /\ pc = "returned"
    /\ sent.proposed.outcome = "ok_not_found"
    /\ LastSubmission.via = "dispatch"
    /\ LastSubmission.outcome = "ok_answer"

\* the optional attributes an employee update may carry
UpdateOptional == {"salary", "department", "location", "notes", "skills", "wills"}

\* the attribute was supplied with a value that is not empty
SuppliedNonEmpty(fields, f) ==
    /\ f \in DOMAIN fields
    /\ f \in {"department", "location", "notes"} => fields[f] \notin {"", " "}
    /\ f \in {"skills", "wills"} => Len(fields[f]) > 0

\* C23: a dispatched employee update carries employee, changed_by and exactly
\* those of salary, department, location, notes, skills, wills that the
\* reasoning step supplied with a non-empty value, each with that value; an
\* attribute omitted or supplied empty is not sent; changed_by is the current
\* user when the step gave none.
C23_UpdateSendsOnlySupplied ==
    (dispatches > 0 /\ sent.fn.kind = "Req_UpdateEmployeeInfo") =>
        /\ DOMAIN sent.fn.fields =
              {f \in UpdateOptional : SuppliedNonEmpty(sent.proposed.fields, f)}
        /\ \A f \in DOMAIN sent.fn.fields : sent.fn.fields[f] = sent.proposed.fields[f]
        /\ sent.fn.id = sent.proposed.id
        /\ sent.fn.by = IF sent.proposed.by = NoId THEN current_user ELSE sent.proposed.by

\* C23 (case): an update proposed with an empty text and an empty list, and
\* without changed_by, was dispatched.
C23_EmptyFieldsDropped ==
    /\ dispatches > 0
    /\ sent.fn.kind = "Req_UpdateEmployeeInfo"
    /\ sent.proposed.by = NoId
    /\ DOMAIN sent.proposed.fields = {"department", "location", "skills"}
    /\ DOMAIN sent.fn.fields = {"department"}

\* the attribute as proposed when the step set it, else its default
ProposedOr(fields, f, default) ==
    IF f \in DOMAIN fields /\ fields[f] # "" THEN fields[f] ELSE default

\* C24: a dispatched time entry has logged_by as proposed, else the current
\* user; work_category as proposed, else "development"; status as proposed,
\* else "draft"; billable as proposed when set (false stays false), else
\* true; and a customer exactly when one was proposed, with that value.
C24_TimeEntryDefaults ==
    (dispatches > 0 /\ sent.fn.kind = "Req_LogTimeEntry") =>
        LET p == sent.proposed.fields
            f == sent.fn.fields
        IN  /\ sent.fn.by = IF sent.proposed.by = NoId THEN current_user ELSE sent.proposed.by
            /\ f.work_category = ProposedOr(p, "work_category", "development")
            /\ f.status = ProposedOr(p, "status", "draft")
            /\ f.billable = IF "billable" \in DOMAIN p THEN p.billable ELSE TRUE
            /\ "customer" \in DOMAIN f <=> "customer" \in DOMAIN p
            /\ "customer" \in DOMAIN p => f.customer = p.customer

\* C24 (case): a time entry proposed with billable false and nothing else was
\* dispatched.
C24_ExplicitFalseKept ==
    /\ dispatches > 0
    /\ sent.fn.kind = "Req_LogTimeEntry"
    /\ DOMAIN sent.proposed.fields = {"billable"}
    /\ sent.proposed.fields.billable = FALSE
    /\ sent.fn.fields.billable = FALSE
    /\ sent.fn.by = current_user

\* the last n entries of the list of identifiers seen, as a set
LatestSeen(n) == {all_ids[i] : i \in {j \in DOMAIN all_ids : j > Len(all_ids) - n}}

\* C25: when MAX_STEPS iterations have run, one more submission is made and it
\* ends the run: error_internal without links if a system failure was
\* recorded; else denied_security without links if the instruction names a
\* status change; else error_internal with one link per identifier among the
\* last three seen.
C25_ExhaustionOutcome ==
    [][(pc = "loop" /\ step = MAX_STEPS) =>
          /\ pc' = "returned"
          /\ Len(submissions') = Len(submissions) + 1
          /\ SubSeq(submissions', 1, Len(submissions)) = submissions
          /\ LET last == submissions'[Len(submissions')] IN
             /\ last.via = "provide_agent_response"
             /\ last.outcome =
                    IF system_broken THEN "error_internal"
                    ELSE IF NamesStatusChange(Lower(task_text)) THEN "denied_security"
                    ELSE "error_internal"
             /\ last.links =
                    IF system_broken \/ NamesStatusChange(Lower(task_text)) THEN {}
                    ELSE LatestSeen(3)]_vars

\* C25 (case): the budget ran out on a task that names no status change, after
\* more identifiers were seen than the last three show.
C25_ExhaustedWithRecentLinks ==
    /\ pc = "returned"
    /\ step = MAX_STEPS
    /\ LastSubmission.outcome = "error_internal"
    /\ LastSubmission.links # {}
    /\ LastSubmission.links # WordsOf(all_ids)

\* C26: a step that sets done while proposing an action other than a final
\* response ends the task in its own iteration with ok_answer and links for
\* the identifiers seen last, also when the dispatch of the action failed; and
\* a run that ends in the loop with a success outcome ends by a dispatched
\* final response.
C26_DoneEndsTheTask ==
    /\ (dispatches > 0 /\ sent.done /\ ~IsFinal(sent.proposed)) =>
          /\ pc = "returned"
          /\ LastSubmission.outcome = "ok_answer"
          /\ LastSubmission.links = LatestSeen(5)
    /\ (pc = "returned" /\ llm_calls > 0 /\ LastSubmission.outcome = "ok_answer") =>
          LastSubmission.via = "dispatch"

\* the workers between taking the lock and releasing it
InCritical == {w \in Workers : worker[w].pc \in {"locked", "sleeping", "stamp"}}

\* C27: under every interleaving of the workers, at most one of them is
\* inside acquire's critical section; each admission sets last_call at least
\* min_interval after the one before; every worker that calls acquire is
\* admitted in the end; and with rps <= 0 the interval is 0 and nobody sleeps.
C27_LimiterAdmits ==
    /\ [](Cardinality(InCritical) <= 1)
    /\ [](rps <= 0 => /\ min_interval = 0
                      /\ \A w \in Workers : worker[w].pc # "sleeping")
    /\ [][\A w \in Workers :
            (worker[w].pc = "stamp" /\ worker'[w].pc = "admitted") =>
                last_call' - last_call >= min_interval]_vars
    /\ \A w \in Workers : (worker[w].pc = "acquire") ~> (worker[w].pc = "admitted")

\* C27 (case): a worker slept inside acquire while the other one was waiting
\* for the lock, and was admitted when its sleep was over.
C27_AdmittedAfterSleep ==
    \E w, v \in Workers :
        /\ worker[w].pc = "admitted"
        /\ worker[w].wake > Second
        /\ last_call >= worker[w].wake
        /\ worker[v].pc = "acquire"

\* C28: with a positive rate, every reasoning call, of any worker at any
\* iteration, follows an admission by the limiter made for it, so that it
\* comes at least min_interval after the reasoning call before it.
C28_ReasoningCallsAdmitted ==
    [][\A w \in Workers :
        (rps > 0 /\ worker'[w].calls = worker[w].calls + 1) =>
            /\ worker[w].calls = 0
            /\ clock - last_reasoning >= min_interval]_vars

\* C29: every identifier in all_ids stood as a whole word in the memory or
\* the scratch of some parsed step or in some API response of the task, and
\* no step takes an identifier out of all_ids.
C29_IdsComeFromTexts ==
    /\ [](\A i \in DOMAIN all_ids : all_ids[i] \in texts)
    /\ [][WordsOf(all_ids) \subseteq WordsOf(all_ids')]_vars

\* the event a return of the Pattern Guard is expected to log, told from the
\* outcome submitted and from who asked
DecisionEvent ==
    CASE LastSubmission.outcome = "ok_answer" -> "guest_date"
      [] LastSubmission.outcome = "none_unsupported" -> "unsupported"
      [] LastSubmission.outcome = "none_clarification_needed" -> "clarification"
      [] OTHER -> IF is_public THEN "guest_denied" ELSE "deny"

\* event a stands before event b in a list of events
LoggedInOrder(events, a, b) ==
    \E i, j \in DOMAIN events : i < j /\ events[i] = a /\ events[j] = b

\* C30: every return of the Pattern Guard (guest denial, guest date answer,
\* denylist, unsupported, vague reference) has logged the event of its
\* decision when run_task returns; and every api.dispatch call of the loop has
\* a tool_call event before it and a tool_result event after it, whether it
\* returned or raised.
C30_DecisionsAndDispatchesTraced ==
    /\ [](GuardAnswered => trace = <<DecisionEvent>>)
    /\ [][dispatches' = dispatches + 1 =>
              LoggedInOrder(trace', "tool_call", "tool_result")]_vars

\* C30 (case): a dispatch raised, the loop went on, and the step's last trace
\* event is its tool_result.
C30_FailureTraced ==
    /\ pc = "loop"
    /\ dispatches > 0
    /\ messages = <<"tool_error">>
    /\ trace[Len(trace)] = "tool_result"

\* C31: a reasoning call that fails below the cap leaves the step counter
\* where it was, so the failure costs none of the MAX_STEPS iterations, and
\* nothing is dispatched for it.
C31_FailureKeepsTheStep ==
    [][(llm_fails' = llm_fails + 1 /\ pc' = "loop") =>
           (step' = step /\ dispatches' = dispatches)]_vars

\* C32: llm_fails counts the reasoning calls that failed in a row: a call
\* that logs llm_error adds one, a call that parses sets it to 0, no other
\* step changes it, and it is at most 2 whenever an iteration starts. So a
\* run ends on a reasoning failure only with the third failure in a row.
C32_FailuresInARow ==
    /\ [](pc = "loop" => llm_fails < LLM_FAIL_CAP)
    /\ [][/\ llm_calls' = llm_calls =>
                llm_fails' = llm_fails
          /\ llm_calls' = llm_calls + 1 =>
                llm_fails' = (IF \E i \in DOMAIN trace' : trace'[i] = "llm_error"
                              THEN llm_fails + 1 ELSE 0)
          /\ (pc' = "returned" /\ \E i \in DOMAIN trace' : trace'[i] = "llm_error") =>
                (llm_fails = LLM_FAIL_CAP - 1 /\ llm_fails' = LLM_FAIL_CAP
                 /\ EndsWith("error_internal", "System error."))]_vars

\* C32 (case): a reasoning call failed right after a step that was parsed and
\* dispatched, at least two calls into the run, and the counter stands at 1.
C32_FailureAfterParse ==
    /\ pc = "loop"
    /\ llm_fails = 1
    /\ llm_calls >= 3
    /\ dispatches >= 1
    /\ trace[Len(trace)] = "llm_error"

\* the n greatest members of a set of positions
Newest(S, n) == { i \in S : Cardinality({ j \in S : j > i }) < n }

\* the positions of the fragments of mem that the claim says are returned:
\* neither empty nor an error record, among the last 20 of those, with a
\* signal marker, among the last 12 of those
Retained(mem) ==
    LET lines == { i \in DOMAIN mem : mem[i] # <<>> /\ ~HasERR(mem[i]) }
        important == { i \in Newest(lines, 20) : HasSignal(mem[i]) }
    IN  Newest(important, 12)

\* C33: compress_memory returns, in their order, exactly the fragments that
\* are left when the empty ones and the error records are dropped, the last
\* 20 of the rest are taken, those with a signal marker are kept and the last
\* 12 of them are taken: at most 12 fragments, none an error record, each
\* with a signal marker, in the order they had in the input.
C33_CompressKeepsLastSignals ==
    [][pc = "raw" =>
         LET at == Retained(memory)
             nth(k) == CHOOSE i \in at : Cardinality({ j \in at : j < i }) = k - 1
         IN  /\ Len(memory') = Cardinality(at)
             /\ \A k \in DOMAIN memory' : memory'[k] = memory[nth(k)]
             /\ Len(memory') <= 12
             /\ \A k \in DOMAIN memory' : HasSignal(memory'[k]) /\ ~HasERR(memory'[k])]_vars

\* C33 (case): of 26 fragments, every second one with an identifier, the 10
\* with an identifier among the last 20 came back, from the 8th to the 26th.
C33_WindowBeforeSignals ==
    /\ pc = "compressed"
    /\ Len(memory) = 10
    /\ memory[1] = Numbered(<<"emp_x", "found">>, 8)
    /\ memory[10] = Numbered(<<"emp_x", "found">>, 26)

\* C34: after a mutation action (log-time-entry, update-employee-info,
\* update-project-status, update-project-team, update-wiki) was dispatched
\* and returned, the confirmation marker appended for it is among the
\* fragments of the memory that the next reasoning call is shown.
C34_MarkerShownToNextCall ==
    [][(/\ dispatches' = dispatches + 1
        /\ sent'.fn.kind \in MutationKinds
        /\ pc' = "loop"
        /\ messages' # <<>>
        /\ messages'[Len(messages')] = "tool") =>
           \E k \in DOMAIN compress_memory(memory') :
               compress_memory(memory')[k] = <<"CHECK", sent'.fn.kind>>]_vars

\* the step dispatched an action other than a final response and the
\* dispatch returned: the tool message closes what the step appended
ReturnedFromDispatch ==
    /\ dispatches' = dispatches + 1
    /\ ~IsFinal(sent'.fn)
    /\ messages' # <<>>
    /\ messages'[Len(messages')] = "tool"

\* C35: call_history only grows; a step that dispatched a non-final action
\* whose dispatch returned adds exactly one pair, of the kind of that action,
\* and every other step (a rejected or blocked action, a dispatch that
\* raised, a final response, a failed reasoning call) adds none; and when
\* the pair just added is there 3 or more times, the loop warning is among
\* the messages appended in that step.
C35_HistoryCountsReturnedDispatches ==
    [][/\ \A k \in BagToSet(call_history) :
              CopiesIn(k, call_history') >= CopiesIn(k, call_history)
       /\ ReturnedFromDispatch =>
              \E k \in BagToSet(call_history') :
                  /\ k[1] = sent'.fn.kind
                  /\ call_history' = call_history (+) SetToBag({k})
                  /\ CopiesIn(k, call_history') >= 3 <=>
                         \E i \in DOMAIN messages' : messages'[i] = "loop_warning"
       /\ ~ReturnedFromDispatch => call_history' = call_history]_vars

\* C35 (case): the same search returned for the third time and the warning
\* was appended before the tool message.
C35_WarnedOnThirdRepeat ==
    /\ pc = "loop"
    /\ \E k \in BagToSet(call_history) : CopiesIn(k, call_history) = 3
    /\ LoggedInOrder(messages, "loop_warning", "tool")

\* C36: a step makes at most one reasoning call and at most one dispatch, the
\* dispatch after the call; the action proposed by a parsed step is
\* dispatched exactly once, and not at all when it was rejected for a
\* hallucinated identifier or blocked as a premature final response; a
\* dispatch that raised is not issued again.
C36_OneDispatchPerProposal ==
    [][LET has(events, e) == \E i \in DOMAIN events : events[i] = e
           called == llm_calls' - llm_calls
           issued == dispatches' - dispatches
           rejected == has(messages', "hallucinated")
           blocked == has(messages', "blocked") /\ ~has(trace', "force_allow")
           unparsed == has(trace', "llm_error")
       IN  /\ called \in {0, 1}
           /\ issued \in {0, 1}
           /\ called = 0 => issued = 0
           /\ called = 1 =>
                  issued = (IF rejected \/ blocked \/ unparsed THEN 0 ELSE 1)
           /\ issued = 1 => LoggedInOrder(trace', "llm", "tool_call")]_vars

\* C36 (case): two steps were parsed and each action was dispatched once; the
\* second dispatch raised and the loop went on.
C36_FailedDispatchNotRepeated ==
    /\ pc = "loop"
    /\ llm_calls = 2
    /\ dispatches = 2
    /\ messages # <<>>
    /\ messages[Len(messages)] = "tool_error"

\* C37: a search for customers filtered by Denmark that returned without
\* naming a customer has the retry hint among the messages of its step, so
\* before the next reasoning call; and the step after the hint does not end
\* the task with a final response labelled ok_not_found: a search without the
\* filter has to come first.
C37_NordicRetryBeforeNotFound ==
    [][/\ (/\ ReturnedFromDispatch
           /\ sent'.fn.kind = "Req_SearchCustomers"
           /\ NamesDenmark(sent'.fn.locations)
           /\ all_ids' = all_ids) =>
              LoggedInOrder(messages', "nordic_retry", "tool")
       /\ (\E i \in DOMAIN messages : messages[i] = "nordic_retry") =>
              ~(/\ dispatches' = dispatches + 1
                /\ pc' = "returned"
                /\ sent'.proposed = Final("ok_not_found"))]_vars

\* C38: whenever an iteration starts, api_fails is 0 and system_broken is
\* false: the step that counts a system failure ends the task in the same
\* iteration. So no task ends with the answer of the loop-head guard, and the
\* exhaustion of the budget never reports a system error.
C38_NoSystemFailureAtLoopHead ==
    /\ [](pc = "loop" => (api_fails = 0 /\ ~system_broken))
    /\ [](\A i \in DOMAIN submissions : submissions[i].message # "System unavailable.")
    /\ [][/\ api_fails' # api_fails =>
                (api_fails' = api_fails + 1 /\ system_broken' /\ pc' = "returned")
          /\ (pc = "loop" /\ step = MAX_STEPS) =>
                submissions'[Len(submissions')].message # "System error."]_vars

\* C38 (case): a dispatch raised a system error in a later iteration: the
\* failure was counted and the task ended there.
C38_CountedAndEnded ==
    /\ pc = "returned"
    /\ api_fails = 1
    /\ system_broken
    /\ step > 0
    /\ LastSubmission.message = "System error."

C40_TaskAlwaysCompleted ==
    \A w \in Workers :
        LET at == worker[w]
            made(call) == { i \in DOMAIN at.log : at.log[i] = call }
        IN  /\ at.pc # "escaped"
            /\ made("start_task") # {} =>
                   (at.admitted /\ at.log[1] = "acquire" /\ at.raised # <<"acquire">>)
            /\ Cardinality(made("complete_task")) <= 1
            /\ at.pc \in {"report", "returned"} =>
                   /\ made("complete_task") = {Len(at.log)}
                   /\ at.error = (IF at.raised = <<>> THEN None ELSE at.raised[1])
            /\ (at.raised # <<>> /\ at.raised[1] # "complete_task") =>
                   /\ at.error = at.raised[1]
                   /\ at.log[Len(at.log)] \in {at.raised[1], "complete_task"}

\* C40 (case): run_task raised for one task, complete_task was called after
\* it and execute_task returned with the error.
C40_CompletedAfterRunRaised ==
    \E w \in Workers :
        /\ worker[w].pc = "returned"
        /\ worker[w].error = "run_task"
        /\ worker[w].log = <<"acquire", "start_task", "run_task", "complete_task">>

====
